---- MODULE Spec2Model ----
(***************************************************************************)
(* State-reconstruction core of postfiat.nodes.task.state: TaskState,      *)
(* LogState, AccountState, NodeState and UserState, each folded over a     *)
(* stream of protocol messages by its update() method.                     *)
(*                                                                         *)
(* Python values are modelled as follows.  An Optional field is the empty  *)
(* sequence (None) or a one-element sequence (a value).  A dict is a       *)
(* function whose DOMAIN is the set of keys present.  A dataclass is a     *)
(* record.  A message is a record carrying the attributes its class has;   *)
(* reading an attribute a message lacks raises AttributeError.  A method   *)
(* call yields a record [state, exc]: the object as the call left it and   *)
(* the exception that ended the call ("None" when it returned normally).   *)
(***************************************************************************)
EXTENDS Integers, Sequences, FiniteSets, TLC

\* ------------------------------------------------------------------ bounds
MaxLedger == 1
MaxTxn == 1
MaxRootCalls == 3
MaxAccountCalls == 6
MaxTaskCalls == 8
MaxLogCalls == 3
MaxPairCalls == 4

\* ------------------------------------------------------------------ enums
AccountStatus == {"INVALID", "PENDING", "ACTIVE", "BLACKLISTED"}

RiteStatus == {"INVALID", "UNSTARTED", "UNDERWAY", "COMPLETE"}

TaskStatus ==
    {"INVALID", "REQUESTED", "PROPOSED", "ACCEPTED", "REFUSED",
     "COMPLETED", "CHALLENGED", "RESPONDED", "REWARDED"}

LogStatus == {"INVALID", "REQUESTED", "RESPONDED"}

None == << >>

Some(v) == << v >>

\* --------------------------------------------------------------- messages
TaskVariants ==
    {"UserRequestMessage", "NodeProposalMessage", "UserAcceptanceMessage",
     "UserRefusalMessage", "UserCompletionMessage", "NodeChallengeMessage",
     "UserChallengeResponseMessage", "NodeRewardMessage"}

AccountVariants ==
    {"UserGDocContextMessage", "UserInitiationRiteMessage", "UserLogMessage",
     "NodeLogResponseMessage", "NodeWalletFundingMessage",
     "NodeInitiationRewardMessage", "UserSweepAddressMessage",
     "NodeBlacklistMessage"}

Directions == {"USER_TO_NODE", "NODE_TO_USER"}

RawData == {"raw"}

Wallets == {"rAlice", "rBob"}

TaskIds == {"T1", "T2"}

MessageIds == {"L1", "L2"}

Amounts == {10, 42}

Texts == {"hello", "world"}

Links == {"doc://x", "doc://y"}

Addresses == {"rSweep1", "rSweep2"}

LedgerSeqs == 0..MaxLedger

TransactionSeqs == 0..MaxTxn

\* The attributes every Message has: its class, scope, direction, raw
\* payload, ledger position (ledger numbers L, transaction numbers N) and
\* owning wallet.
Header(classes, scope, W, D, L, N) ==
    [cls : classes, scope : {scope}, direction : D, raw_data : RawData,
     ledger_seq : L, transaction_seq : N, user_wallet : W]

Extend(headers, extras) == { h @@ e : h \in headers, e \in extras }

\* The task-scoped messages: each carries task_id, a proposal carries
\* pft_offer and a reward carries amount_pft.
TaskMessages(W, D, L, N, T, A) ==
    LET plain == TaskVariants \ {"NodeProposalMessage", "NodeRewardMessage"}
    IN  Extend(Header(plain, "TASK", W, D, L, N), [task_id : T])
        \cup Extend(Header({"NodeProposalMessage"}, "TASK", W, D, L, N),
                    [task_id : T, pft_offer : A])
        \cup Extend(Header({"NodeRewardMessage"}, "TASK", W, D, L, N),
                    [task_id : T, amount_pft : A])

\* The account-scoped messages with the payload attributes of each class.
AccountMessages(W, D, L, N, M, X, K, S) ==
    Header({"UserInitiationRiteMessage", "NodeWalletFundingMessage",
            "NodeInitiationRewardMessage", "NodeBlacklistMessage"},
           "ACCOUNT", W, D, L, N)
    \cup Extend(Header({"UserGDocContextMessage"}, "ACCOUNT", W, D, L, N),
                [gdoc_context_link : K])
    \cup Extend(Header({"UserLogMessage", "NodeLogResponseMessage"},
                       "ACCOUNT", W, D, L, N),
                [message_id : M, message : X])
    \cup Extend(Header({"UserSweepAddressMessage"}, "ACCOUNT", W, D, L, N),
                [sweep_address : S])

\* The messages each kind of object is driven with.
RootClasses ==
    {"UserInitiationRiteMessage", "UserGDocContextMessage",
     "NodeInitiationRewardMessage", "NodeBlacklistMessage",
     "UserRequestMessage"}

RootMessages ==
    { m \in TaskMessages(Wallets, {"USER_TO_NODE"}, LedgerSeqs,
                         TransactionSeqs, {"T1"}, {42})
            \cup AccountMessages(Wallets, {"USER_TO_NODE"}, LedgerSeqs,
                                 TransactionSeqs, {"L1"}, {"hello"},
                                 {"doc://x"}, {"rSweep1"}) :
        m.cls \in RootClasses }

NodeSent ==
    {"NodeProposalMessage", "NodeChallengeMessage", "NodeRewardMessage",
     "NodeLogResponseMessage", "NodeWalletFundingMessage",
     "NodeInitiationRewardMessage", "NodeBlacklistMessage"}

\* The messages of M whose direction is the one their class is named for.
FromSender(M) ==
    { m \in M : m.direction = IF m.cls \in NodeSent THEN "NODE_TO_USER"
                                                    ELSE "USER_TO_NODE" }

AccountInputs ==
    FromSender(TaskMessages({"rAlice"}, Directions, {1}, {0}, TaskIds, {42})
               \cup AccountMessages({"rAlice"}, Directions, {1}, {0}, {"L1"},
                                    {"hello"}, Links, Addresses))

TaskInputs ==
    TaskMessages({"rAlice"}, {"USER_TO_NODE"}, {1}, {0}, {"T1"}, Amounts)

LogInputs ==
    AccountMessages({"rAlice"}, {"USER_TO_NODE"}, {1}, {0},
                    MessageIds, Texts, {"doc://x"}, {"rSweep1"})

\* ------------------------------------------------------------ call results
Ok(obj) == [state |-> obj, exc |-> "None"]

Raise(obj, e) == [state |-> obj, exc |-> e]

\* obj.field = msg.attr
SetFromAttr(obj, field, msg, attr) ==
    IF attr \in DOMAIN msg
    THEN Ok([obj EXCEPT ![field] = Some(msg[attr])])
    ELSE Raise(obj, "AttributeError")

\* ---------------------------------------------------------------- TaskState
NewTaskState ==
    [status |-> "INVALID", pft_offered |-> None, pft_rewarded |-> None,
     message_history |-> << >>]

\* self.message_history.append((msg.direction, msg.raw_data))
TaskState_append(self, msg) ==
    [self EXCEPT !.message_history = Append(@, <<msg.direction, msg.raw_data>>)]

\* The match statement of TaskState.update, on the task s it is entered with.
TaskState_match(s, msg) ==
    CASE msg.cls = "UserRequestMessage" ->
           IF s.status = "INVALID"
           THEN Ok([s EXCEPT !.status = "REQUESTED"]) ELSE Ok(s)
      [] msg.cls = "NodeProposalMessage" ->
           IF s.status = "REQUESTED"
           THEN SetFromAttr([s EXCEPT !.status = "PROPOSED"],
                            "pft_offered", msg, "pft_offer")
           ELSE Ok(s)
      [] msg.cls = "UserAcceptanceMessage" ->
           IF s.status = "PROPOSED"
           THEN Ok([s EXCEPT !.status = "ACCEPTED"]) ELSE Ok(s)
      [] msg.cls = "UserRefusalMessage" ->
           IF s.status \in {"PROPOSED", "ACCEPTED", "COMPLETED", "CHALLENGED"}
           THEN Ok([s EXCEPT !.status = "REFUSED"]) ELSE Ok(s)
      [] msg.cls = "UserCompletionMessage" ->
           IF s.status = "ACCEPTED"
           THEN Ok([s EXCEPT !.status = "COMPLETED"]) ELSE Ok(s)
      [] msg.cls = "NodeChallengeMessage" ->
           IF s.status = "COMPLETED"
           THEN Ok([s EXCEPT !.status = "CHALLENGED"]) ELSE Ok(s)
      [] msg.cls = "UserChallengeResponseMessage" ->
           IF s.status = "CHALLENGED"
           THEN Ok([s EXCEPT !.status = "RESPONDED"]) ELSE Ok(s)
      [] msg.cls = "NodeRewardMessage" ->
           IF s.status = "RESPONDED"
           THEN SetFromAttr([s EXCEPT !.status = "REWARDED"],
                            "pft_rewarded", msg, "amount_pft")
           ELSE Ok(s)
      [] OTHER -> Ok(s)

\* Faulty variant: a refusal is also taken in RESPONDED.
TaskState_update_RefuseResponded(self, msg) ==
    LET s == TaskState_append(self, msg)
    IN  IF msg.cls = "UserRefusalMessage" /\ s.status = "RESPONDED"
        THEN Ok([s EXCEPT !.status = "REFUSED"])
        ELSE TaskState_match(s, msg)

\* Faulty variant: the reward branch reads msg.pft_reward, which no message has.
TaskState_update_ReadsPftReward(self, msg) ==
    LET s == TaskState_append(self, msg)
    IN  IF msg.cls = "NodeRewardMessage" /\ s.status = "RESPONDED"
        THEN SetFromAttr([s EXCEPT !.status = "REWARDED"],
                         "pft_rewarded", msg, "pft_reward")
        ELSE TaskState_match(s, msg)

\* Faulty variant: a proposal records its offer whatever the status is.
TaskState_update_OfferUnguarded(self, msg) ==
    LET r == TaskState_match(TaskState_append(self, msg), msg)
    IN  IF msg.cls = "NodeProposalMessage"
        THEN SetFromAttr(r.state, "pft_offered", msg, "pft_offer")
        ELSE r

\* Faulty variant: a request re-opens a refused task.
TaskState_update_ReopenRefused(self, msg) ==
    LET s == TaskState_append(self, msg)
    IN  IF msg.cls = "UserRequestMessage" /\ s.status = "REFUSED"
        THEN Ok([s EXCEPT !.status = "REQUESTED"])
        ELSE TaskState_match(s, msg)

\* Faulty variant: a challenge is taken again after the response to one.
TaskState_update_ChallengeAgain(self, msg) ==
    LET s == TaskState_append(self, msg)
    IN  IF msg.cls = "NodeChallengeMessage" /\ s.status = "RESPONDED"
        THEN Ok([s EXCEPT !.status = "CHALLENGED"])
        ELSE TaskState_match(s, msg)

\* Faulty variant: the reward amount is taken outside the RESPONDED guard.
TaskState_update_RewardAmountUnguarded(self, msg) ==
    LET s == TaskState_append(self, msg)
    IN  IF msg.cls = "NodeRewardMessage" /\ s.status # "RESPONDED"
        THEN SetFromAttr(s, "pft_rewarded", msg, "amount_pft")
        ELSE TaskState_match(s, msg)

TaskState_update(self, msg) == TaskState_match(TaskState_append(self, msg), msg)

\* ----------------------------------------------------------------- LogState
NewLogState == [status |-> "INVALID", request |-> None, response |-> None]

\* Faulty variant: a request is taken only by a log without one, a response
\* only by a log in REQUESTED.
LogState_update_Guarded(self, msg) ==
    CASE msg.cls = "UserLogMessage" /\ self.status = "INVALID" ->
           SetFromAttr([self EXCEPT !.status = "REQUESTED"],
                       "request", msg, "message")
      [] msg.cls = "NodeLogResponseMessage" /\ self.status = "REQUESTED" ->
           SetFromAttr([self EXCEPT !.status = "RESPONDED"],
                       "response", msg, "message")
      [] OTHER -> Ok(self)

\* Faulty variant: a response records its text and leaves the status.
LogState_update_ResponseKeepsStatus(self, msg) ==
    CASE msg.cls = "UserLogMessage" ->
           SetFromAttr([self EXCEPT !.status = "REQUESTED"],
                       "request", msg, "message")
      [] msg.cls = "NodeLogResponseMessage" ->
           SetFromAttr(self, "response", msg, "message")
      [] OTHER -> Ok(self)

LogState_update(self, msg) ==
    CASE msg.cls = "UserLogMessage" ->
           SetFromAttr([self EXCEPT !.status = "REQUESTED"],
                       "request", msg, "message")
      [] msg.cls = "NodeLogResponseMessage" ->
           SetFromAttr([self EXCEPT !.status = "RESPONDED"],
                       "response", msg, "message")
      [] OTHER -> Ok(self)

\* ------------------------------------------------------------- AccountState
EmptyDict == [k \in {} |-> None]

NewAccountState ==
    [init_rite_status |-> "UNSTARTED", context_doc_link |-> None,
     sweep_address |-> None, is_blacklisted |-> FALSE,
     tasks |-> EmptyDict, logs |-> EmptyDict,
     account_message_history |-> << >>]

\* d[k] on a defaultdict(factory): a missing key is inserted with factory().
DefaultDictGetItem(d, k, factory) ==
    IF k \in DOMAIN d THEN Ok(d) ELSE Ok((k :> factory) @@ d)

\* Faulty variant: PENDING only when the rite is incomplete and the link is absent.
AccountState_status_And(self) ==
    IF self.is_blacklisted
    THEN "BLACKLISTED"
    ELSE IF self.init_rite_status # "COMPLETE" /\ self.context_doc_link = None
         THEN "PENDING"
         ELSE "ACTIVE"

AccountState_status(self) ==
    IF self.is_blacklisted
    THEN "BLACKLISTED"
    ELSE IF self.init_rite_status # "COMPLETE" \/ self.context_doc_link = None
         THEN "PENDING"
         ELSE "ACTIVE"

\* self.tasks[msg.task_id].update(msg)
RouteToTask(self, msg) ==
    IF "task_id" \notin DOMAIN msg
    THEN Raise(self, "AttributeError")
    ELSE LET got == DefaultDictGetItem(self.tasks, msg.task_id, NewTaskState)
         IN  IF got.exc # "None"
             THEN Raise(self, got.exc)
             ELSE LET r == TaskState_update(got.state[msg.task_id], msg)
                  IN  [state |-> [self EXCEPT !.tasks =
                                    [got.state EXCEPT ![msg.task_id] = r.state]],
                       exc |-> r.exc]

\* self.logs[msg.message_id].update(msg)
RouteToLog(self, msg) ==
    IF "message_id" \notin DOMAIN msg
    THEN Raise(self, "AttributeError")
    ELSE LET got == DefaultDictGetItem(self.logs, msg.message_id, NewLogState)
         IN  IF got.exc # "None"
             THEN Raise(self, got.exc)
             ELSE LET r == LogState_update(got.state[msg.message_id], msg)
                  IN  [state |-> [self EXCEPT !.logs =
                                    [got.state EXCEPT ![msg.message_id] = r.state]],
                       exc |-> r.exc]

\* Faulty variant: the entry is inserted at the front of the history.
AccountState_append_Prepend(self, msg) ==
    [self EXCEPT !.account_message_history =
       <<<<msg.direction, msg.raw_data>>>> \o @]

\* self.account_message_history.append((msg.direction, msg.raw_data))
AccountState_append(self, msg) ==
    [self EXCEPT !.account_message_history =
       Append(@, <<msg.direction, msg.raw_data>>)]

\* The dispatch of AccountState.update on scope and class, for the account s
\* it is entered with and the status read at the start of the call.
AccountState_dispatch(s, status, msg) ==
    IF msg.scope = "TASK"
    THEN IF status = "ACTIVE" THEN RouteToTask(s, msg) ELSE Ok(s)
    ELSE IF msg.scope = "ACCOUNT"
    THEN CASE msg.cls = "UserGDocContextMessage" ->
                SetFromAttr(s, "context_doc_link", msg, "gdoc_context_link")
           [] msg.cls \in {"UserLogMessage", "NodeLogResponseMessage"} ->
                IF status = "ACTIVE" THEN RouteToLog(s, msg) ELSE Ok(s)
           [] msg.cls = "UserInitiationRiteMessage" ->
                IF s.init_rite_status = "UNSTARTED"
                THEN Ok([s EXCEPT !.init_rite_status = "UNDERWAY"])
                ELSE Ok(s)
           [] msg.cls = "NodeWalletFundingMessage" -> Ok(s)
           [] msg.cls = "NodeInitiationRewardMessage" ->
                IF s.init_rite_status = "UNDERWAY"
                THEN Ok([s EXCEPT !.init_rite_status = "COMPLETE"])
                ELSE Ok(s)
           [] msg.cls = "UserSweepAddressMessage" ->
                SetFromAttr(s, "sweep_address", msg, "sweep_address")
           [] msg.cls = "NodeBlacklistMessage" ->
                Ok([s EXCEPT !.is_blacklisted = TRUE])
           [] OTHER -> Ok(s)
    ELSE Ok(s)

\* Faulty variant: no early return for a blacklisted account.
AccountState_update_NoBlacklistStop(self, msg) ==
    AccountState_dispatch(AccountState_append(self, msg),
                          AccountState_status(self), msg)

\* Faulty variant: children are routed to unless the account is blacklisted.
AccountState_update_Ungated(self, msg) ==
    LET status == AccountState_status(self)
    IN  IF status = "BLACKLISTED"
        THEN Ok(self)
        ELSE AccountState_dispatch(AccountState_append(self, msg), "ACTIVE", msg)

\* Faulty variant: an initiation reward completes the rite from any status.
AccountState_update_RewardUnguarded(self, msg) ==
    LET status == AccountState_status(self)
        s == AccountState_append(self, msg)
    IN  IF status = "BLACKLISTED"
        THEN Ok(self)
        ELSE IF msg.cls = "NodeInitiationRewardMessage"
        THEN Ok([s EXCEPT !.init_rite_status = "COMPLETE"])
        ELSE AccountState_dispatch(s, status, msg)

\* Faulty variant: an initiation-rite start puts the rite UNDERWAY from any
\* status.
AccountState_update_RiteRestart(self, msg) ==
    LET status == AccountState_status(self)
        s == AccountState_append(self, msg)
    IN  IF status = "BLACKLISTED"
        THEN Ok(self)
        ELSE IF msg.cls = "UserInitiationRiteMessage"
        THEN Ok([s EXCEPT !.init_rite_status = "UNDERWAY"])
        ELSE AccountState_dispatch(s, status, msg)

\* Faulty variant: the sweep address is taken only by an ACTIVE account.
AccountState_update_SweepGated(self, msg) ==
    LET status == AccountState_status(self)
        s == AccountState_append(self, msg)
    IN  IF status = "BLACKLISTED"
        THEN Ok(self)
        ELSE IF msg.cls = "UserSweepAddressMessage" /\ status # "ACTIVE"
        THEN Ok(s)
        ELSE AccountState_dispatch(s, status, msg)

\* Faulty variant: wallet funding starts the rite.
AccountState_update_FundingStartsRite(self, msg) ==
    LET status == AccountState_status(self)
        s == AccountState_append(self, msg)
    IN  IF status = "BLACKLISTED"
        THEN Ok(self)
        ELSE IF msg.cls = "NodeWalletFundingMessage"
                /\ s.init_rite_status = "UNSTARTED"
        THEN Ok([s EXCEPT !.init_rite_status = "UNDERWAY"])
        ELSE AccountState_dispatch(s, status, msg)

\* Faulty variant: the task entry is looked up before the status is tested,
\* so the defaultdict creates it for an account that is not ACTIVE.
AccountState_update_LookupBeforeGate(self, msg) ==
    LET status == AccountState_status(self)
        s == AccountState_append(self, msg)
    IN  IF status = "BLACKLISTED"
        THEN Ok(self)
        ELSE IF msg.scope = "TASK" /\ status # "ACTIVE"
        THEN Ok([s EXCEPT !.tasks =
                   DefaultDictGetItem(s.tasks, msg.task_id, NewTaskState).state])
        ELSE AccountState_dispatch(s, status, msg)

AccountState_update(self, msg) ==
    LET status == AccountState_status(self)
    IN  IF status = "BLACKLISTED"
        THEN Ok(self)
        ELSE AccountState_dispatch(AccountState_append(self, msg), status, msg)

\* ------------------------------------------------------ NodeState, UserState
Position(msg) == <<msg.ledger_seq, msg.transaction_seq>>

\* Faulty variant: the watermark follows every message.
NodeState_update_latest_ledger_seq_Unordered(self, msg) ==
    [state |-> [self EXCEPT !.latest_ledger_seq = Position(msg)],
     printed |-> "None"]

\* Faulty variant: only the ledger number is compared.
UserState_update_latest_ledger_seq_LedgerOnly(self, msg) ==
    IF msg.ledger_seq > self.latest_ledger_seq[1]
    THEN [state |-> [self EXCEPT !.latest_ledger_seq = Position(msg)],
          printed |-> "None"]
    ELSE [state |-> self, printed |-> "out of order ledger seq"]

\* Faulty variant: a message advances the watermark only when both its ledger
\* number and its transaction number are greater.
NodeState_update_latest_ledger_seq_Componentwise(self, msg) ==
    IF msg.ledger_seq > self.latest_ledger_seq[1]
       /\ msg.transaction_seq > self.latest_ledger_seq[2]
    THEN [state |-> [self EXCEPT !.latest_ledger_seq = Position(msg)],
          printed |-> "None"]
    ELSE IF Position(msg) = self.latest_ledger_seq
    THEN [state |-> self, printed |-> "duplicate ledger seq"]
    ELSE [state |-> self, printed |-> "out of order ledger seq"]

\* Faulty variant: a message at the watermark is taken as new.
UserState_update_latest_ledger_seq_AcceptsEqual(self, msg) ==
    IF msg.ledger_seq > self.latest_ledger_seq[1]
       \/ (msg.ledger_seq = self.latest_ledger_seq[1]
           /\ msg.transaction_seq >= self.latest_ledger_seq[2])
    THEN [state |-> [self EXCEPT !.latest_ledger_seq = Position(msg)],
          printed |-> "None"]
    ELSE [state |-> self, printed |-> "out of order ledger seq"]

\* The three-way comparison both roots make of a message's ledger position
\* against latest_ledger_seq: the new watermark and the diagnostic printed.
NodeState_update_latest_ledger_seq(self, msg) ==
    LET latest_ledger_seq == self.latest_ledger_seq[1]
        latest_txn_seq == self.latest_ledger_seq[2]
    IN  IF msg.ledger_seq > latest_ledger_seq
           \/ (msg.ledger_seq = latest_ledger_seq
               /\ msg.transaction_seq > latest_txn_seq)
        THEN [state |-> [self EXCEPT !.latest_ledger_seq = Position(msg)],
              printed |-> "None"]
        ELSE IF msg.ledger_seq = latest_ledger_seq
                /\ msg.transaction_seq = latest_txn_seq
        THEN [state |-> self, printed |-> "duplicate ledger seq"]
        ELSE [state |-> self, printed |-> "out of order ledger seq"]

UserState_update_latest_ledger_seq(self, msg) ==
    LET latest_ledger_seq == self.latest_ledger_seq[1]
        latest_txn_seq == self.latest_ledger_seq[2]
    IN  IF msg.ledger_seq > latest_ledger_seq
           \/ (msg.ledger_seq = latest_ledger_seq
               /\ msg.transaction_seq > latest_txn_seq)
        THEN [state |-> [self EXCEPT !.latest_ledger_seq = Position(msg)],
              printed |-> "None"]
        ELSE IF msg.ledger_seq = latest_ledger_seq
                /\ msg.transaction_seq = latest_txn_seq
        THEN [state |-> self, printed |-> "duplicate ledger seq"]
        ELSE [state |-> self, printed |-> "out of order ledger seq"]

NewNodeState == [accounts |-> EmptyDict, latest_ledger_seq |-> <<0, 0>>]

NewUserState == [node_account |-> NewAccountState, latest_ledger_seq |-> <<0, 0>>]

\* Faulty variant: the message is applied to every account of the mapping.
NodeState_update_Broadcast(self, msg) ==
    LET w == NodeState_update_latest_ledger_seq(self, msg)
        got == DefaultDictGetItem(w.state.accounts, msg.user_wallet,
                                  NewAccountState)
    IN  [state |-> [w.state EXCEPT !.accounts =
                      [k \in DOMAIN got.state |->
                         AccountState_update(got.state[k], msg).state]],
         exc |-> "None", printed |-> w.printed]

NodeState_update(self, msg) ==
    LET w == NodeState_update_latest_ledger_seq(self, msg)
        got == DefaultDictGetItem(w.state.accounts, msg.user_wallet,
                                  NewAccountState)
    IN  IF got.exc # "None"
        THEN [state |-> w.state, exc |-> got.exc, printed |-> w.printed]
        ELSE LET r == AccountState_update(got.state[msg.user_wallet], msg)
             IN  [state |-> [w.state EXCEPT !.accounts =
                               [got.state EXCEPT ![msg.user_wallet] = r.state]],
                  exc |-> r.exc, printed |-> w.printed]

\* Faulty variant: only a message that advanced the watermark is routed.
UserState_update_DropsStale(self, msg) ==
    LET w == UserState_update_latest_ledger_seq(self, msg)
        r == AccountState_update(w.state.node_account, msg)
    IN  IF w.printed # "None"
        THEN [state |-> w.state, exc |-> "None", printed |-> w.printed]
        ELSE [state |-> [w.state EXCEPT !.node_account = r.state],
              exc |-> r.exc, printed |-> w.printed]

UserState_update(self, msg) ==
    LET w == UserState_update_latest_ledger_seq(self, msg)
        r == AccountState_update(w.state.node_account, msg)
    IN  [state |-> [w.state EXCEPT !.node_account = r.state],
         exc |-> r.exc, printed |-> w.printed]

\* -------------------------------------------------------------------- state
VARIABLES
    target,     \* the class of the object the client constructed
    node,       \* the NodeState
    user,       \* the UserState
    account,    \* the AccountState
    task,       \* the TaskState
    log,        \* the LogState
    msg,        \* the argument of the running call of update, None when idle
    prev,       \* between calls, the message the latest call was made with
    dup,        \* whether the latest call passed the same message as the one before
    calls,      \* the number of calls made
    exc,        \* the exception that ended the latest call, "None" if none
    printed     \* the diagnostic a root's latest call printed, "None" if none

vars ==
    <<target, node, user, account, task, log, msg, prev, dup, calls, exc,
      printed>>

objects == <<node, user, account, task, log>>

Roots == {"NodeState", "UserState"}

Classes == Roots \cup {"AccountState", "TaskState", "LogState"}

Inputs(cls) ==
    CASE cls \in Roots -> RootMessages
      [] cls = "AccountState" -> AccountInputs
      [] cls = "TaskState" -> TaskInputs
      [] cls = "LogState" -> LogInputs

MaxCalls(cls) ==
    CASE cls \in Roots -> MaxRootCalls
      [] cls = "AccountState" -> MaxAccountCalls
      [] cls = "TaskState" -> MaxTaskCalls
      [] cls = "LogState" -> MaxLogCalls

Init ==
    /\ target \in Classes
    /\ node = NewNodeState
    /\ user = NewUserState
    /\ account = NewAccountState
    /\ task = NewTaskState
    /\ log = NewLogState
    /\ msg = None
    /\ prev = None
    /\ dup = FALSE
    /\ calls = 0
    /\ exc = "None"
    /\ printed = "None"

\* The client calls update(m) on the object it holds.
Call(m) ==
    /\ msg = None
    /\ calls < MaxCalls(target)
    /\ msg' = Some(m)
    /\ dup' = (prev = Some(m))
    /\ prev' = None
    /\ calls' = calls + 1
    /\ UNCHANGED <<target, objects, exc, printed>>

NodeStateUpdate ==
    /\ msg # None
    /\ target = "NodeState"
    /\ LET r == NodeState_update(node, msg[1])
       IN  /\ node' = r.state
           /\ exc' = r.exc
           /\ printed' = r.printed
    /\ msg' = None
    /\ prev' = msg
    /\ UNCHANGED <<target, user, account, task, log, dup, calls>>

UserStateUpdate ==
    /\ msg # None
    /\ target = "UserState"
    /\ LET r == UserState_update(user, msg[1])
       IN  /\ user' = r.state
           /\ exc' = r.exc
           /\ printed' = r.printed
    /\ msg' = None
    /\ prev' = msg
    /\ UNCHANGED <<target, node, account, task, log, dup, calls>>

AccountStateUpdate ==
    /\ msg # None
    /\ target = "AccountState"
    /\ LET r == AccountState_update(account, msg[1])
       IN  /\ account' = r.state
           /\ exc' = r.exc
    /\ msg' = None
    /\ prev' = msg
    /\ UNCHANGED <<target, node, user, task, log, dup, calls, printed>>

TaskStateUpdate ==
    /\ msg # None
    /\ target = "TaskState"
    /\ LET r == TaskState_update(task, msg[1])
       IN  /\ task' = r.state
           /\ exc' = r.exc
    /\ msg' = None
    /\ prev' = msg
    /\ UNCHANGED <<target, node, user, account, log, dup, calls, printed>>

LogStateUpdate ==
    /\ msg # None
    /\ target = "LogState"
    /\ LET r == LogState_update(log, msg[1])
       IN  /\ log' = r.state
           /\ exc' = r.exc
    /\ msg' = None
    /\ prev' = msg
    /\ UNCHANGED <<target, node, user, account, task, dup, calls, printed>>

Next ==
    \/ \E m \in Inputs(target) : Call(m)
    \/ NodeStateUpdate
    \/ UserStateUpdate
    \/ AccountStateUpdate
    \/ TaskStateUpdate
    \/ LogStateUpdate

Spec == Init /\ [][Next]_vars

\* One specification per kind of object; Spec above is their union.
InitRoot == Init /\ target \in Roots

NextRoot ==
    \/ \E m \in RootMessages : Call(m)
    \/ NodeStateUpdate
    \/ UserStateUpdate

SpecRoot == InitRoot /\ [][NextRoot]_vars

InitAccount == Init /\ target = "AccountState"

NextAccount ==
    \/ \E m \in AccountInputs : Call(m)
    \/ AccountStateUpdate

SpecAccount == InitAccount /\ [][NextAccount]_vars

InitTask == Init /\ target = "TaskState"

NextTask ==
    \/ \E m \in TaskInputs : Call(m)
    \/ TaskStateUpdate

SpecTask == InitTask /\ [][NextTask]_vars

InitLog == Init /\ target = "LogState"

NextLog ==
    \/ \E m \in LogInputs : Call(m)
    \/ LogStateUpdate

SpecLog == InitLog /\ [][NextLog]_vars

\* A client that holds a NodeState and a UserState, both fresh, and passes
\* every message to both; all its messages carry the same user_wallet.
PairWallet == "rAlice"

PairInputs ==
    { m \in RootMessages \cup FromSender(LogInputs) :
        m.user_wallet = PairWallet }

InitPair ==
    /\ target = "Pair"
    /\ node = NewNodeState
    /\ user = NewUserState
    /\ account = NewAccountState
    /\ task = NewTaskState
    /\ log = NewLogState
    /\ msg = None
    /\ prev = None
    /\ dup = FALSE
    /\ calls = 0
    /\ exc = "None"
    /\ printed = "None"

PairCall(m) ==
    /\ msg = None
    /\ calls < MaxPairCalls
    /\ msg' = Some(m)
    /\ dup' = (prev = Some(m))
    /\ prev' = None
    /\ calls' = calls + 1
    /\ UNCHANGED <<target, objects, exc, printed>>

PairUpdate ==
    /\ msg # None
    /\ target = "Pair"
    /\ LET n == NodeState_update(node, msg[1])
           u == UserState_update(user, msg[1])
       IN  /\ node' = n.state
           /\ user' = u.state
           /\ exc' = IF n.exc # "None" THEN n.exc ELSE u.exc
           /\ printed' = u.printed
    /\ msg' = None
    /\ prev' = msg
    /\ UNCHANGED <<target, account, task, log, dup, calls>>

NextPair ==
    \/ \E m \in PairInputs : PairCall(m)
    \/ PairUpdate

SpecPair == InitPair /\ [][NextPair]_vars

\* ------------------------------------------------------------------- claims
\* A step of the running call of update: it starts with the argument in msg.
Updating == msg # None

Arg == msg[1]

\* The lexicographic order of ledger positions, ledger number first.
PosLess(p, q) == p[1] < q[1] \/ (p[1] = q[1] /\ p[2] < q[2])

PosLeq(p, q) == p = q \/ PosLess(p, q)

Watermark ==
    IF target = "NodeState" THEN node.latest_ledger_seq
                            ELSE user.latest_ledger_seq

\* The account a root holds for wallet w: a NodeState's entry for w (a fresh
\* account when it has none yet), a UserState's single node_account.
HeldAccount(w) ==
    IF target = "NodeState"
    THEN IF w \in DOMAIN node.accounts THEN node.accounts[w] ELSE NewAccountState
    ELSE user.node_account

\* C1: a call of a root's update with the message of the call before it leaves
\* the root as that call left it: watermark, accounts, histories and children.
C1_DuplicateIsNoOp ==
    [][(Updating /\ dup) => (node' = node /\ user' = user)]_vars

\* C2: a call of a root's update with a message whose ledger position is
\* strictly below the watermark changes nothing in the root: no account is
\* added and no account, task or log changes.
C2_OutOfOrderDropped ==
    [][(Updating /\ target \in Roots /\ PosLess(Position(Arg), Watermark))
         => (node' = node /\ user' = user)]_vars

\* C3: the watermark of a NodeState and of a UserState never decreases in the
\* lexicographic order, whatever the order of the messages.
C3_MonotonicWatermark ==
    [][/\ PosLeq(node.latest_ledger_seq, node'.latest_ledger_seq)
       /\ PosLeq(user.latest_ledger_seq, user'.latest_ledger_seq)]_vars

\* C3 witness: a message below the watermark was applied and the watermark
\* is still above it.
C3_Witness ==
    /\ target \in Roots
    /\ prev # None
    /\ printed = "out of order ledger seq"
    /\ PosLess(Position(prev[1]), Watermark)

\* C4: once is_blacklisted is true, a call of AccountState.update changes no
\* field of the account, no child and no history, and creates no child.
C4_BlacklistIrreversible ==
    [][(Updating /\ account.is_blacklisted) => account' = account]_vars

\* C4 witness: an account that routed a message to task T1 and was then
\* blacklisted has been sent a message for task T2, which left no entry in
\* the history and created no task.
C4_Witness ==
    /\ target = "AccountState"
    /\ account.is_blacklisted
    /\ DOMAIN account.tasks = {"T1"}
    /\ prev # None
    /\ prev[1].scope = "TASK"
    /\ prev[1].task_id = "T2"
    /\ Len(account.account_message_history) = calls - 1

\* The documented transition table of TaskState: for each message class the
\* statuses it is legal in and the status it leads to.
LegalSources(cls) ==
    CASE cls = "UserRequestMessage" -> {"INVALID"}
      [] cls = "NodeProposalMessage" -> {"REQUESTED"}
      [] cls = "UserAcceptanceMessage" -> {"PROPOSED"}
      [] cls = "UserRefusalMessage" ->
           {"PROPOSED", "ACCEPTED", "COMPLETED", "CHALLENGED"}
      [] cls = "UserCompletionMessage" -> {"ACCEPTED"}
      [] cls = "NodeChallengeMessage" -> {"COMPLETED"}
      [] cls = "UserChallengeResponseMessage" -> {"CHALLENGED"}
      [] cls = "NodeRewardMessage" -> {"RESPONDED"}

TargetStatus(cls) ==
    CASE cls = "UserRequestMessage" -> "REQUESTED"
      [] cls = "NodeProposalMessage" -> "PROPOSED"
      [] cls = "UserAcceptanceMessage" -> "ACCEPTED"
      [] cls = "UserRefusalMessage" -> "REFUSED"
      [] cls = "UserCompletionMessage" -> "COMPLETED"
      [] cls = "NodeChallengeMessage" -> "CHALLENGED"
      [] cls = "UserChallengeResponseMessage" -> "RESPONDED"
      [] cls = "NodeRewardMessage" -> "REWARDED"

\* C5: TaskState.update in status S with a message of class V leaves the
\* status at V's target when S is a legal source of V and at S otherwise, and
\* makes the history exactly one entry longer.
C5_TransitionLegality ==
    [][Updating =>
         /\ task'.status = IF task.status \in LegalSources(Arg.cls)
                           THEN TargetStatus(Arg.cls)
                           ELSE task.status
         /\ Len(task'.message_history) = Len(task.message_history) + 1]_vars

\* C5 witness: a task went all the way to REWARDED and then absorbed one
\* more message.
C5_Witness ==
    /\ target = "TaskState"
    /\ task.status = "REWARDED"
    /\ Len(task.message_history) = 8
    /\ msg = None

ChildMessage(m) ==
    m.scope = "TASK" \/ m.cls \in {"UserLogMessage", "NodeLogResponseMessage"}

\* C6: AccountState.update changes or creates a task or log child only when
\* the status at the start of the call is ACTIVE; in PENDING a task or log
\* message is appended to the account history and leaves the children as
\* they were.
C6_AccountGating ==
    [][Updating =>
         /\ (account'.tasks # account.tasks \/ account'.logs # account.logs)
              => AccountState_status(account) = "ACTIVE"
         /\ (AccountState_status(account) = "PENDING" /\ ChildMessage(Arg))
              => /\ account'.tasks = account.tasks
                 /\ account'.logs = account.logs
                 /\ account'.account_message_history =
                      Append(account.account_message_history,
                             <<Arg.direction, Arg.raw_data>>)]_vars

\* C6 witness: a PENDING account whose rite is complete has recorded a task
\* message in its history and has no child.
C6_Witness ==
    /\ target = "AccountState"
    /\ AccountState_status(account) = "PENDING"
    /\ account.init_rite_status = "COMPLETE"
    /\ prev # None
    /\ prev[1].scope = "TASK"
    /\ Len(account.account_message_history) = calls
    /\ calls >= 3
    /\ DOMAIN account.tasks = {}
    /\ DOMAIN account.logs = {}

C8_DerivedStatus ==
    AccountState_status(account) =
      CASE account.is_blacklisted -> "BLACKLISTED"
        [] ~account.is_blacklisted
             /\ (account.init_rite_status \in {"INVALID", "UNSTARTED", "UNDERWAY"}
                 \/ Len(account.context_doc_link) = 0) -> "PENDING"
        [] OTHER -> "ACTIVE"

\* C8 witness: an account with a complete rite and no context link, which
\* is PENDING.
C8_Witness ==
    /\ target = "AccountState"
    /\ ~account.is_blacklisted
    /\ account.init_rite_status = "COMPLETE"
    /\ account.context_doc_link = None

\* C9: a call of a root's update with a message strictly above the watermark
\* sets the watermark to the message's position, and the account held for
\* the message's wallet (NodeState) or the single account (UserState) becomes
\* what AccountState.update makes of it.
C9_AdvanceAndRoute ==
    [][(Updating /\ target \in Roots /\ PosLess(Watermark, Position(Arg)))
         => \A w \in Wallets : \A p \in LedgerSeqs \X TransactionSeqs :
              (w = Arg.user_wallet /\ p = Position(Arg))
                => /\ Watermark' = p
                   /\ HeldAccount(w)' =
                        AccountState_update(HeldAccount(w), Arg).state
                   /\ target = "NodeState" => w \in DOMAIN node'.accounts
      ]_vars

\* C9 witness: a message at position (1, 1) advanced the watermark, which
\* is now its position, and the account held for its wallet recorded it.
C9_Witness ==
    /\ target \in Roots
    /\ prev # None
    /\ calls >= 2
    /\ printed = "None"
    /\ Watermark = <<1, 1>>
    /\ Position(prev[1]) = <<1, 1>>
    /\ Len(HeldAccount(prev[1].user_wallet).account_message_history) >= 1

\* C10: pft_offered changes only on REQUESTED -> PROPOSED, from unset to the
\* proposal's offer, and pft_rewarded only on RESPONDED -> REWARDED, from
\* unset to the reward's amount; no other update changes either.
C10_AmountsSetOnce ==
    [][Updating =>
         /\ task'.pft_offered # task.pft_offered
              => /\ Arg.cls = "NodeProposalMessage"
                 /\ task.status = "REQUESTED"
                 /\ task'.status = "PROPOSED"
                 /\ task.pft_offered = None
                 /\ task'.pft_offered = Some(Arg.pft_offer)
         /\ task'.pft_rewarded # task.pft_rewarded
              => /\ Arg.cls = "NodeRewardMessage"
                 /\ task.status = "RESPONDED"
                 /\ task'.status = "REWARDED"
                 /\ task.pft_rewarded = None
                 /\ task'.pft_rewarded = Some(Arg.amount_pft)]_vars

\* C10 witness: both amounts are set, to different values, and the task has
\* since been sent another proposal.
C10_Witness ==
    /\ target = "TaskState"
    /\ task.pft_offered = Some(42)
    /\ task.pft_rewarded = Some(10)
    /\ prev # None
    /\ prev[1].cls = "NodeProposalMessage"
    /\ prev[1].pft_offer = 10

\* The entry update appends to a history for message m.
Entry(m) == <<m.direction, m.raw_data>>

\* C11: in REFUSED or REWARDED, TaskState.update changes neither the status
\* nor either amount, whatever the message; it only appends to the history.
C11_TerminalStates ==
    [][(Updating /\ task.status \in {"REFUSED", "REWARDED"})
         => /\ task'.status = task.status
            /\ task'.pft_offered = task.pft_offered
            /\ task'.pft_rewarded = task.pft_rewarded
            /\ task'.message_history = Append(task.message_history, Entry(Arg))
      ]_vars

\* C11 witness: a refused task has been sent a request and is still REFUSED.
C11_Witness ==
    /\ target = "TaskState"
    /\ task.status = "REFUSED"
    /\ prev # None
    /\ prev[1].cls = "UserRequestMessage"
    /\ Len(task.message_history) >= 4

\* C12: init_rite_status changes only from UNSTARTED to UNDERWAY, on an
\* initiation-rite start, and from UNDERWAY to COMPLETE, on an initiation
\* reward; an account that is not blacklisted makes exactly these changes, so
\* a reward before any start leaves the rite UNSTARTED.
C12_RiteGuarded ==
    [][Updating =>
         /\ account'.init_rite_status # account.init_rite_status
              => \/ /\ Arg.cls = "UserInitiationRiteMessage"
                    /\ account.init_rite_status = "UNSTARTED"
                    /\ account'.init_rite_status = "UNDERWAY"
                 \/ /\ Arg.cls = "NodeInitiationRewardMessage"
                    /\ account.init_rite_status = "UNDERWAY"
                    /\ account'.init_rite_status = "COMPLETE"
         /\ (~account.is_blacklisted /\ Arg.cls = "UserInitiationRiteMessage"
             /\ account.init_rite_status = "UNSTARTED")
              => account'.init_rite_status = "UNDERWAY"
         /\ (~account.is_blacklisted /\ Arg.cls = "NodeInitiationRewardMessage"
             /\ account.init_rite_status = "UNDERWAY")
              => account'.init_rite_status = "COMPLETE"]_vars

\* C12 witness: an initiation reward reached an account whose rite was not
\* started; the account recorded it and the rite is still UNSTARTED.
C12_Witness ==
    /\ target = "AccountState"
    /\ ~account.is_blacklisted
    /\ account.init_rite_status = "UNSTARTED"
    /\ prev # None
    /\ prev[1].cls = "NodeInitiationRewardMessage"
    /\ Len(account.account_message_history) = calls

\* C13: NodeState.update(m) leaves every account of the mapping other than
\* the one keyed by m.user_wallet in the mapping and unchanged.
C13_AccountIsolation ==
    [][(Updating /\ target = "NodeState")
         => \A w \in DOMAIN node.accounts :
              w # Arg.user_wallet
                => /\ w \in DOMAIN node'.accounts
                   /\ node'.accounts[w] = node.accounts[w]]_vars

\* C13 witness: a NodeState holds accounts for both wallets, each with a
\* message recorded, and the latest message was for rBob.
C13_Witness ==
    /\ target = "NodeState"
    /\ DOMAIN node.accounts = Wallets
    /\ \A w \in Wallets : Len(node.accounts[w].account_message_history) >= 1
    /\ prev # None
    /\ prev[1].user_wallet = "rBob"

\* C14: fed the same messages, all of one user_wallet w, a fresh NodeState and
\* a fresh UserState have, after every call, equal latest_ledger_seq, and
\* NodeState.accounts[w] equals UserState.node_account in every field,
\* history and child; the NodeState holds no other account.
C14_RootsEquivalent ==
    target = "Pair"
      => /\ node.latest_ledger_seq = user.latest_ledger_seq
         /\ DOMAIN node.accounts \subseteq {PairWallet}
         /\ calls = 0 => (DOMAIN node.accounts = {}
                          /\ user.node_account = NewAccountState)
         /\ (calls > 0 /\ msg = None)
              => /\ PairWallet \in DOMAIN node.accounts
                 /\ node.accounts[PairWallet] = user.node_account

\* C14 witness: both roots have taken a message below their watermark and
\* applied it to an ACTIVE account that holds a task.
C14_Witness ==
    /\ target = "Pair"
    /\ msg = None
    /\ printed = "out of order ledger seq"
    /\ AccountState_status(user.node_account) = "ACTIVE"
    /\ DOMAIN user.node_account.tasks # {}
    /\ PairWallet \in DOMAIN node.accounts

\* History h2 is history h, or h with one entry appended.
AppendOnly(h, h2) ==
    /\ Len(h) <= Len(h2)
    /\ Len(h2) <= Len(h) + 1
    /\ SubSeq(h2, 1, Len(h)) = h

\* Account a2 keeps the history of account a and of each of its tasks.
AccountAppendOnly(a, a2) ==
    /\ AppendOnly(a.account_message_history, a2.account_message_history)
    /\ \A t \in DOMAIN a.tasks :
         /\ t \in DOMAIN a2.tasks
         /\ AppendOnly(a.tasks[t].message_history,
                       a2.tasks[t].message_history)

\* C15: every account history and every task history before a call of update
\* is a prefix of the history after it, and the call appends at most one
\* entry to it: no recorded entry is removed, reordered or rewritten.
C15_AppendOnlyHistories ==
    [][/\ AppendOnly(task.message_history, task'.message_history)
       /\ AccountAppendOnly(account, account')
       /\ AccountAppendOnly(user.node_account, user'.node_account)
       /\ \A w \in DOMAIN node.accounts :
            /\ w \in DOMAIN node'.accounts
            /\ AccountAppendOnly(node.accounts[w], node'.accounts[w])]_vars

\* C15 witness: an account has recorded messages of both directions, and one
\* of its tasks has recorded two messages.
C15_Witness ==
    /\ target = "AccountState"
    /\ msg = None
    /\ Len(account.account_message_history) >= 5
    /\ account.account_message_history[1] # account.account_message_history[2]
    /\ \E t \in DOMAIN account.tasks :
         Len(account.tasks[t].message_history) >= 2

\* C16: from any status, LogState.update with a request message sets status
\* to REQUESTED and request to the message text, leaving response unchanged;
\* with a response message it sets status to RESPONDED and response to the
\* message text, leaving request unchanged. A request applied in RESPONDED
\* re-enters REQUESTED and overwrites the earlier request text.
C16_LogUnguarded ==
    [][(Updating /\ target = "LogState")
         => /\ Arg.cls = "UserLogMessage"
                 => log' = [status |-> "REQUESTED",
                            request |-> Some(Arg.message),
                            response |-> log.response]
            /\ Arg.cls = "NodeLogResponseMessage"
                 => log' = [status |-> "RESPONDED",
                            request |-> log.request,
                            response |-> Some(Arg.message)]]_vars

\* C16 witness: a log that was RESPONDED took a request with a new text; it is
\* REQUESTED again, with the new request text and the response kept.
C16_Witness ==
    /\ target = "LogState"
    /\ calls = 3
    /\ prev # None
    /\ prev[1].cls = "UserLogMessage"
    /\ log.status = "REQUESTED"
    /\ log.request = Some("world")
    /\ log.response = Some("hello")

\* C17 as stated: in every reachable LogState, response present implies
\* request present.
C17_ResponseFollowsRequest ==
    /\ log.response # None => log.request # None
    /\ \A k \in DOMAIN account.logs :
         account.logs[k].response # None => account.logs[k].request # None

\* The status of log l agrees with its texts; request may be unset while
\* response is set.
LogConsistent(l) ==
    /\ l.status = "RESPONDED" => l.response # None
    /\ l.status = "REQUESTED" => l.request # None
    /\ l.status = "INVALID" <=> (l.request = None /\ l.response = None)
    /\ (l.response # None /\ l.request = None) => l.status = "RESPONDED"

\* C17 amended: in every reachable LogState a present response text implies a
\* response message was applied (status is RESPONDED, or REQUESTED with the
\* request present); a log whose response is present and whose request is
\* unset is RESPONDED, and a RESPONDED log has its response present.
C17_ResponseImpliesStatus ==
    /\ LogConsistent(log)
    /\ \A k \in DOMAIN account.logs : LogConsistent(account.logs[k])

\* C17 witness: an ACTIVE account routed a response to a log identifier that
\* had no request; the log is RESPONDED with request unset.
C17_Witness ==
    /\ target = "AccountState"
    /\ \E k \in DOMAIN account.logs :
         /\ account.logs[k].status = "RESPONDED"
         /\ account.logs[k].response # None
         /\ account.logs[k].request = None

\* C18: for an account that is not blacklisted, PENDING or ACTIVE alike, a
\* context-link message sets context_doc_link to the link of the message and
\* a sweep-address message sets sweep_address to the address of the message,
\* whatever value the field held before.
C18_SettersUngated ==
    [][(Updating /\ target = "AccountState" /\ ~account.is_blacklisted)
         => /\ Arg.cls = "UserGDocContextMessage"
                 => account'.context_doc_link = Some(Arg.gdoc_context_link)
            /\ Arg.cls = "UserSweepAddressMessage"
                 => account'.sweep_address = Some(Arg.sweep_address)]_vars

\* C18 witness: a PENDING account whose rite never started holds a context
\* link and has just taken a sweep address, after four calls.
C18_Witness ==
    /\ target = "AccountState"
    /\ AccountState_status(account) = "PENDING"
    /\ account.init_rite_status = "UNSTARTED"
    /\ prev # None
    /\ prev[1].cls = "UserSweepAddressMessage"
    /\ account.sweep_address = Some("rSweep2")
    /\ account.context_doc_link = Some("doc://y")
    /\ Len(account.account_message_history) = 4

\* C19: for an account that is not blacklisted, AccountState.update with a
\* wallet-funding message appends one entry to the account history and leaves
\* init_rite_status, context_doc_link, sweep_address, is_blacklisted and every
\* task and log child unchanged.
C19_FundingHistoryOnly ==
    [][(Updating /\ target = "AccountState" /\ ~account.is_blacklisted
        /\ Arg.cls = "NodeWalletFundingMessage")
         => account' = [account EXCEPT !.account_message_history =
                                         Append(@, Entry(Arg))]]_vars

\* C19 witness: an ACTIVE account holding a task has just taken a
\* wallet-funding message and recorded it.
C19_Witness ==
    /\ target = "AccountState"
    /\ prev # None
    /\ prev[1].cls = "NodeWalletFundingMessage"
    /\ AccountState_status(account) = "ACTIVE"
    /\ DOMAIN account.tasks # {}
    /\ Len(account.account_message_history) = calls
    /\ account.account_message_history[calls] = Entry(prev[1])

\* The order of the account lifecycle.
StatusRank(st) ==
    CASE st = "PENDING" -> 1
      [] st = "ACTIVE" -> 2
      [] st = "BLACKLISTED" -> 3
      [] OTHER -> 0

\* C20: over any sequence of AccountState.update calls whose context-link
\* messages carry a link, the derived status only moves forward along
\* PENDING, ACTIVE, BLACKLISTED: an ACTIVE account never returns to PENDING,
\* a BLACKLISTED account stays BLACKLISTED, and neither AccountStatus.INVALID
\* nor RiteStatus.INVALID is reached.
C20_StatusOneWay ==
    [][/\ StatusRank(AccountState_status(account))
            <= StatusRank(AccountState_status(account'))
       /\ AccountState_status(account) # "INVALID"
       /\ AccountState_status(account') # "INVALID"
       /\ account.init_rite_status # "INVALID"
       /\ account'.init_rite_status # "INVALID"]_vars

\* C20 witness: an account that became ACTIVE and took an initiation-rite
\* start and a new context link afterwards is still ACTIVE.
C20_Witness ==
    /\ target = "AccountState"
    /\ msg = None
    /\ AccountState_status(account) = "ACTIVE"
    /\ account.context_doc_link = Some("doc://y")
    /\ prev # None
    /\ prev[1].cls = "UserInitiationRiteMessage"
    /\ Len(account.account_message_history) >= 5

\* The place of a task status along the task lifecycle; REFUSED and REWARDED
\* end it.
TaskRank(st) ==
    CASE st = "INVALID" -> 0
      [] st = "REQUESTED" -> 1
      [] st = "PROPOSED" -> 2
      [] st = "ACCEPTED" -> 3
      [] st = "COMPLETED" -> 4
      [] st = "CHALLENGED" -> 5
      [] st = "RESPONDED" -> 6
      [] st = "REFUSED" -> 7
      [] st = "REWARDED" -> 7

\* C21: every change of a task's status moves it strictly forward along the
\* lifecycle, whose last place is the seventh, so a status once left is never
\* re-entered and the status changes at most 7 times; from RESPONDED the only
\* change is to REWARDED.
C21_TaskAcyclic ==
    [][/\ task.status \in TaskStatus
       /\ task'.status \in TaskStatus
       /\ task'.status # task.status
            => TaskRank(task.status) < TaskRank(task'.status)
       /\ (task.status = "RESPONDED" /\ task'.status # "RESPONDED")
            => task'.status = "REWARDED"]_vars

\* C21 witness: a task that took eight messages and made all seven changes,
\* one message absorbed on the way, is REWARDED.
C21_Witness ==
    /\ target = "TaskState"
    /\ task.status = "REWARDED"
    /\ Len(task.message_history) = 8
    /\ prev # None
    /\ prev[1].cls = "NodeRewardMessage"

\* The amounts of task t are the ones its status calls for.
AmountsTrackStatus(t) ==
    /\ t.pft_offered # None
         <=> t.status \in {"PROPOSED", "ACCEPTED", "REFUSED", "COMPLETED",
                           "CHALLENGED", "RESPONDED", "REWARDED"}
    /\ t.pft_rewarded # None <=> t.status = "REWARDED"

\* C22: in every reachable TaskState, the messages carrying their amounts,
\* pft_offered is set exactly when the status is one of PROPOSED, ACCEPTED,
\* REFUSED, COMPLETED, CHALLENGED, RESPONDED, REWARDED, and pft_rewarded is
\* set exactly when the status is REWARDED.
C22_AmountsTrackStatus ==
    /\ AmountsTrackStatus(task)
    /\ \A k \in DOMAIN account.tasks : AmountsTrackStatus(account.tasks[k])

\* C22 witness: a REFUSED task that took a reward message afterwards holds
\* its offer and no reward.
C22_Witness ==
    /\ target = "TaskState"
    /\ task.status = "REFUSED"
    /\ task.pft_offered = Some(10)
    /\ task.pft_rewarded = None
    /\ prev # None
    /\ prev[1].cls = "NodeRewardMessage"

\* The greater of two ledger positions in the lexicographic order.
PosMax(p, q) == IF PosLess(p, q) THEN q ELSE p

\* C23: latest_ledger_seq of a fresh NodeState or UserState is (0, 0), and
\* every call of update makes it the lexicographic maximum of its value and
\* the position of the message; so it is at all times the maximum of (0, 0)
\* and the positions of the messages passed so far, in whatever order.
C23_WatermarkRunningMax ==
    [][/\ calls = 0 => /\ node.latest_ledger_seq = <<0, 0>>
                       /\ user.latest_ledger_seq = <<0, 0>>
       /\ (Updating /\ target = "NodeState")
            => node'.latest_ledger_seq =
                 PosMax(node.latest_ledger_seq, Position(Arg))
       /\ (Updating /\ target = "UserState")
            => user'.latest_ledger_seq =
                 PosMax(user.latest_ledger_seq, Position(Arg))]_vars

\* C23 witness: a NodeState whose third message, at (0, 1), came below the
\* watermark has its watermark at (1, 0), the greatest position it was passed.
C23_Witness ==
    /\ target = "NodeState"
    /\ calls = 3
    /\ node.latest_ledger_seq = <<1, 0>>
    /\ printed = "out of order ledger seq"
    /\ prev # None
    /\ Position(prev[1]) = <<0, 1>>

\* C24: a message at position (0, 0) never takes the watermark-advancing
\* branch: the root prints a diagnostic and keeps its watermark; the first
\* message of a fresh root, at (0, 0), is classified as a duplicate.
C24_ZeroNeverNew ==
    [][(Updating /\ target \in Roots /\ Position(Arg) = <<0, 0>>)
         => /\ printed' \in {"duplicate ledger seq", "out of order ledger seq"}
            /\ node'.latest_ledger_seq = node.latest_ledger_seq
            /\ user'.latest_ledger_seq = user.latest_ledger_seq
            /\ calls = 1 => printed' = "duplicate ledger seq"]_vars

\* C24 witness: the first message of a fresh UserState was at (0, 0) and was
\* reported as a duplicate.
C24_Witness ==
    /\ target = "UserState"
    /\ calls = 1
    /\ prev # None
    /\ Position(prev[1]) = <<0, 0>>
    /\ printed = "duplicate ledger seq"
    /\ user.latest_ledger_seq = <<0, 0>>

\* The running call routes its message to task T: the account is ACTIVE at
\* the start of the call and the message is task-scoped with task_id T.
RoutedToTask(T) ==
    /\ AccountState_status(account) = "ACTIVE"
    /\ Arg.scope = "TASK"
    /\ Arg.task_id = T

\* The running call routes its message to log M.
RoutedToLog(M) ==
    /\ AccountState_status(account) = "ACTIVE"
    /\ Arg.cls \in {"UserLogMessage", "NodeLogResponseMessage"}
    /\ Arg.message_id = M

\* The number of messages task T of account a has recorded, 0 without entry.
TaskLen(a, T) ==
    IF T \in DOMAIN a.tasks THEN Len(a.tasks[T].message_history) ELSE 0

\* C25: a fresh AccountState has no task and no log; a call of update adds
\* the key T to tasks exactly when it routes a task-scoped message with
\* task_id T to an ACTIVE account, and then the history of that task grows by
\* one, so T is a key exactly when such a message was applied and the length
\* of its history is the number of such messages; a task message taken while
\* PENDING or BLACKLISTED creates no entry. Likewise for logs and message_id.
C25_ChildrenThroughActive ==
    [][/\ calls = 0 => (DOMAIN account.tasks = {} /\ DOMAIN account.logs = {})
       /\ \A T \in DOMAIN account.tasks : TaskLen(account, T) >= 1
       /\ (Updating /\ target = "AccountState")
            => /\ DOMAIN account'.tasks \subseteq TaskIds
               /\ DOMAIN account'.logs \subseteq MessageIds
               /\ \A T \in TaskIds :
                    /\ T \in DOMAIN account'.tasks
                         <=> (T \in DOMAIN account.tasks \/ RoutedToTask(T))
                    /\ TaskLen(account', T) =
                         TaskLen(account, T)
                           + (IF RoutedToTask(T) THEN 1 ELSE 0)
               /\ \A M \in MessageIds :
                    M \in DOMAIN account'.logs
                      <=> (M \in DOMAIN account.logs \/ RoutedToLog(M))]_vars

\* C25 witness: an account took six messages; the two task messages and the
\* log message that came once it was ACTIVE made task T1, with two entries,
\* and log L1, and there is no other child.
C25_Witness ==
    /\ target = "AccountState"
    /\ msg = None
    /\ calls = 6
    /\ AccountState_status(account) = "ACTIVE"
    /\ DOMAIN account.tasks = {"T1"}
    /\ Len(account.tasks["T1"].message_history) = 2
    /\ DOMAIN account.logs = {"L1"}
    /\ Len(account.account_message_history) = 6

====
